---- MODULE Spec2Model ----
(***************************************************************************)
(* Quick Cut: the segment pipeline of VideoProcessor.process_video, the    *)
(* ASR word-event adapter (ASRFillerDetector) and the interval algebra     *)
(* (_merge_adjacent / _merge_intervals / _subtract_intervals).             *)
(*                                                                         *)
(* Time is counted in quarter seconds, so the two merge gaps of the        *)
(* detector (0.25 s and 0.5 s) are the integers 1 and 2.  An interval is a *)
(* pair <<start, end>>; a list of intervals is a sequence of pairs.        *)
(***************************************************************************)
EXTENDS Integers, Sequences, FiniteSets, TLC

\* ------------------------------------------------------------------------
\* Bounds of the model
\* ------------------------------------------------------------------------
MaxTime == 3          \* interval endpoints of the algebra inputs: 0..MaxTime
MaxIntervals == 3     \* total number of intervals in one algebra input
MaxGap == 1           \* merge gaps tried by the algebra: 0..MaxGap
MaxWords == 2         \* word events the recognizer reports for one audio
MaxWordTime == 5      \* word timestamps: 0..MaxWordTime (quarter seconds)
ClipDuration == 4     \* length of the clip and of its audio (quarter seconds)
MaxFrames == 2          \* analysis frames of an audio buffer given to the classifier
ExportTotal == 2        \* total of the 't' bar of a write_videofile call

\* ------------------------------------------------------------------------
\* Program constants
\* ------------------------------------------------------------------------
merge_gap_seconds == 1          \* 0.25 s, in quarter seconds
speech_merge_gap_seconds == 2   \* 0.5 s, in quarter seconds
silence_threshold == -40        \* VideoProcessor(silence_threshold=-40.0), dB
min_silence_duration == 2000    \* VideoProcessor(min_silence_duration=2.0), ms

\* ------------------------------------------------------------------------
\* Helpers
\* ------------------------------------------------------------------------
Min(a, b) == IF a <= b THEN a ELSE b
Max(a, b) == IF a >= b THEN a ELSE b

Range(s) == {s[k] : k \in DOMAIN s}

\* All sequences over S of length at most n
SeqsUpTo(S, n) == UNION {[1..k -> S] : k \in 0..n}

\* ------------------------------------------------------------------------
\* sorted(xs, key=lambda x: x[0]): Python's sort is stable, so intervals
\* with equal starts keep their input order.
\* ------------------------------------------------------------------------
RECURSIVE InsertByStart(_, _)
InsertByStart(x, s) ==
    IF s = <<>> THEN <<x>>
    ELSE IF x[1] <= Head(s)[1] THEN <<x>> \o s
    ELSE <<Head(s)>> \o InsertByStart(x, Tail(s))

RECURSIVE SortedByStart(_)
SortedByStart(s) ==
    IF s = <<>> THEN <<>>
    ELSE InsertByStart(Head(s), SortedByStart(Tail(s)))

\* ------------------------------------------------------------------------
\* ASRFillerDetector._merge_adjacent(ranges, max_gap)
\* ------------------------------------------------------------------------
\* Mutant: the fold compares with < instead of <=, so ranges exactly
\* max_gap apart are not merged.
RECURSIVE MergeLoopStrict(_, _, _, _, _)
MergeLoopStrict(rest, cs, ce, merged, max_gap) ==
    IF rest = <<>> THEN Append(merged, <<cs, ce>>)
    ELSE LET s == Head(rest)[1]
             e == Head(rest)[2]
         IN IF s < ce + max_gap
            THEN MergeLoopStrict(Tail(rest), cs, Max(ce, e), merged, max_gap)
            ELSE MergeLoopStrict(Tail(rest), s, e, Append(merged, <<cs, ce>>), max_gap)

\* Mutant: the fold keeps the end of the latest range instead of the maximum.
RECURSIVE MergeLoopLastEnd(_, _, _, _, _)
MergeLoopLastEnd(rest, cs, ce, merged, max_gap) ==
    IF rest = <<>> THEN Append(merged, <<cs, ce>>)
    ELSE LET s == Head(rest)[1]
             e == Head(rest)[2]
         IN IF s <= ce + max_gap
            THEN MergeLoopLastEnd(Tail(rest), cs, e, merged, max_gap)
            ELSE MergeLoopLastEnd(Tail(rest), s, e, Append(merged, <<cs, ce>>), max_gap)

\* the for loop of lines 198-204: (cs, ce) is the range being grown
RECURSIVE MergeLoop(_, _, _, _, _)
MergeLoop(rest, cs, ce, merged, max_gap) ==
    IF rest = <<>> THEN Append(merged, <<cs, ce>>)
    ELSE LET s == Head(rest)[1]
             e == Head(rest)[2]
         IN IF s <= ce + max_gap
            THEN MergeLoop(Tail(rest), cs, Max(ce, e), merged, max_gap)
            ELSE MergeLoop(Tail(rest), s, e, Append(merged, <<cs, ce>>), max_gap)

_merge_adjacent(ranges, max_gap) ==
    IF ranges = <<>> THEN <<>>
    ELSE LET sorted == SortedByStart(ranges)
         IN MergeLoop(Tail(sorted), Head(sorted)[1], Head(sorted)[2], <<>>, max_gap)

\* VideoProcessor._merge_intervals(intervals, min_gap): the same fold
_merge_intervals(intervals, min_gap) ==
    IF intervals = <<>> THEN <<>>
    ELSE LET sorted == SortedByStart(intervals)
         IN MergeLoop(Tail(sorted), Head(sorted)[1], Head(sorted)[2], <<>>, min_gap)

\* ------------------------------------------------------------------------
\* VideoProcessor._subtract_intervals(base, cuts)
\* ------------------------------------------------------------------------
\* while i < len(cuts) and cuts[i][1] <= cs: i += 1      (indices from 1 here)
RECURSIVE SkipCuts(_, _, _)
SkipCuts(cuts, i, cs) ==
    IF i <= Len(cuts) /\ cuts[i][2] <= cs
    THEN SkipCuts(cuts, i + 1, cs)
    ELSE i

\* Mutant: the sweep forgets to move the cursor past the cut.
RECURSIVE CutLoopNoAdvance(_, _, _, _, _)
CutLoopNoAdvance(cuts, j, cur, ce, result) ==
    IF j <= Len(cuts) /\ cuts[j][1] < ce
    THEN LET cut_s == cuts[j][1]
             r1 == IF cut_s > cur
                   THEN Append(result, <<cur, Min(cut_s, ce)>>)
                   ELSE result
         IN CutLoopNoAdvance(cuts, j + 1, Max(cur, cut_s), ce, r1)
    ELSE [cur |-> cur, result |-> result]

\* the inner while loop of lines 376-383; returns the cursor and the result
RECURSIVE CutLoop(_, _, _, _, _)
CutLoop(cuts, j, cur, ce, result) ==
    IF j <= Len(cuts) /\ cuts[j][1] < ce
    THEN LET cut_s == cuts[j][1]
             cut_e == cuts[j][2]
             r1 == IF cut_s > cur
                   THEN Append(result, <<cur, Min(cut_s, ce)>>)
                   ELSE result
             cur1 == Max(cur, cut_e)
         IN IF cur1 >= ce
            THEN [cur |-> cur1, result |-> r1]
            ELSE CutLoop(cuts, j + 1, cur1, ce, r1)
    ELSE [cur |-> cur, result |-> result]

\* the for loop over base of lines 370-385; i is the shared cut cursor
RECURSIVE BaseLoop(_, _, _, _, _)
BaseLoop(base, k, cuts, i, result) ==
    IF k > Len(base) THEN result
    ELSE LET cs == base[k][1]
             ce == base[k][2]
             i1 == SkipCuts(cuts, i, cs)
             w  == CutLoop(cuts, i1, cs, ce, result)
             r2 == IF w.cur < ce THEN Append(w.result, <<w.cur, ce>>) ELSE w.result
         IN BaseLoop(base, k + 1, cuts, i1, r2)

\* Mutant: the two early returns of lines 362-365 are missing.
_subtract_intervals_NoEarlyReturn(base, cuts) ==
    BaseLoop(SortedByStart(base), 1, SortedByStart(cuts), 1, <<>>)

_subtract_intervals(base, cuts) ==
    IF base = <<>> THEN <<>>
    ELSE IF cuts = <<>> THEN base
    ELSE BaseLoop(SortedByStart(base), 1, SortedByStart(cuts), 1, <<>>)

\* ------------------------------------------------------------------------
\* Properties of interval lists
\* ------------------------------------------------------------------------
\* t lies in some half-open interval [start, end) of the list
Covered(t, ivs) == \E k \in DOMAIN ivs : ivs[k][1] <= t /\ t < ivs[k][2]

IsSortedByStart(ivs) ==
    \A k \in 1..(Len(ivs) - 1) : ivs[k][1] <= ivs[k + 1][1]

NonOverlapping(ivs) ==
    \A k \in 1..(Len(ivs) - 1) : ivs[k][2] <= ivs[k + 1][1]

\* ------------------------------------------------------------------------
\* ASRFillerDetector: word events of the recognizer
\* ------------------------------------------------------------------------
\* self.filler_set
filler_set == {"um", "uh", "umm", "uhh", "erm", "er", "ah", "eh", "mm", "hmm"}

\* str.lower() on the texts the model draws
Lower(word) ==
    CASE word = "Um" -> "um"
      [] OTHER -> word

\* Mutant: the degenerate-event filter of _collect_words_from_result is dropped.
RECURSIVE CollectWordsNoFilter(_)
CollectWordsNoFilter(words) ==
    IF words = <<>> THEN <<>>
    ELSE <<<<Head(words).start, Head(words).end>>>> \o CollectWordsNoFilter(Tail(words))

\* _collect_words_from_result: the interval of every word with end > start
RECURSIVE _collect_words_from_result(_)
_collect_words_from_result(words) ==
    IF words = <<>> THEN <<>>
    ELSE LET w == Head(words)
             rest == _collect_words_from_result(Tail(words))
         IN IF w.end > w.start THEN <<<<w.start, w.end>>>> \o rest ELSE rest

\* Mutant: the word text is looked up in the lexicon without lowercasing it.
RECURSIVE CollectFillersCaseSensitive(_)
CollectFillersCaseSensitive(words) ==
    IF words = <<>> THEN <<>>
    ELSE LET w == Head(words)
             rest == CollectFillersCaseSensitive(Tail(words))
         IN IF w.word \in filler_set /\ w.end > w.start
            THEN <<<<w.start, w.end>>>> \o rest
            ELSE rest

\* _collect_fillers_from_result: the same for words of the filler lexicon
RECURSIVE _collect_fillers_from_result(_)
_collect_fillers_from_result(words) ==
    IF words = <<>> THEN <<>>
    ELSE LET w == Head(words)
             rest == _collect_fillers_from_result(Tail(words))
         IN IF Lower(w.word) \in filler_set /\ w.end > w.start
            THEN <<<<w.start, w.end>>>> \o rest
            ELSE rest

\* detect_speech_segments / detect_fillers on an enabled detector whose
\* recognizer reports the word events `words` for the audio
detect_speech_segments(words) ==
    _merge_adjacent(_collect_words_from_result(words), speech_merge_gap_seconds)

detect_fillers(words) ==
    _merge_adjacent(_collect_fillers_from_result(words), merge_gap_seconds)

\* sum(end - start for start, end in speech_segments)
RECURSIVE TotalTime(_)
TotalTime(ivs) ==
    IF ivs = <<>> THEN 0 ELSE (Head(ivs)[2] - Head(ivs)[1]) + TotalTime(Tail(ivs))

\* ------------------------------------------------------------------------
\* State
\* ------------------------------------------------------------------------
VARIABLES
    pc,               \* position of the process_video call (or "idle"/"done"/"analyzed")
    _cancelled,       \* VideoProcessor._cancelled
    cancel_requested, \* cancel() was called since the current process_video call began
    closes,           \* number of video_clip.close() calls of the run
    audio_segment,    \* "unset", "None" or "audio": result of load_audio_from_video
    detector,         \* "none", "enabled" or "disabled": ASRFillerDetector().enabled
    word_events,      \* word events the recognizer reports while the ASR block runs
    oracle_speech,    \* what detect_speech_segments returned
    filler_segments,  \* what detect_fillers returned
    speech_segments,  \* the local speech_segments of process_video
    subclips,         \* the ranges handed to video_clip.subclip so far
    result,           \* "none", "True" or "False": return value of process_video
    progress,         \* last percentage given to progress_callback
    message,          \* last message given to progress_callback
    output,           \* "none", "original" or "edited": what was written to output_path
    analysis,         \* the dictionary analyze_video returned
    algOp,      \* "input", "subtract" or "merge": what the algebra run did
    algBase,    \* base (subtract) or ranges (merge) handed to the primitive
    algCuts,    \* cuts handed to _subtract_intervals
    algGap,     \* max_gap handed to _merge_adjacent
    algOut,     \* the list the primitive returned
    analyzer,   \* the AudioAnalyzer's fields silence_threshold and min_silence_duration
    buffer,     \* the audio buffer handed to the AudioAnalyzer
    anaOp,      \* "input" or the name of the analyzer method that was called
    anaOut,     \* what that method returned
    export_index,    \* frames the running write_videofile reported to the export logger
    current,         \* Settings.current
    last_set,        \* per key, the value of the last set() since construction or reset
    is_processing,   \* MainWindow.is_processing
    controls,        \* last argument of MainWindow.set_controls_state
    progress_text,   \* MainWindow.progress_text_var
    dialog,          \* "none", "complete" or "error": the last message box shown
    workers,         \* position of each processing thread
    video_processor, \* 0 (None) or the thread whose VideoProcessor the window holds
    cancelled,       \* threads whose VideoProcessor has _cancelled set
    cancel_confirmed,\* threads that were alive when the user confirmed Cancel
    after_queue      \* callbacks posted with root.after(0, ...) and not yet run

algVars == <<algOp, algBase, algCuts, algGap, algOut>>
anaVars == <<analyzer, buffer, anaOp, anaOut>>
setVars == <<current, last_set>>
guiVars == <<is_processing, controls, progress_text, dialog, workers, video_processor,
             cancelled, cancel_confirmed, after_queue>>
runVars == <<pc, _cancelled, cancel_requested, closes, audio_segment, detector, word_events,
             oracle_speech, filler_segments, speech_segments, subclips, result,
             progress, message, output, analysis, export_index>>
vars == <<pc, _cancelled, cancel_requested, closes, audio_segment, detector, word_events,
          oracle_speech, filler_segments, speech_segments, subclips, result,
          progress, message, output, analysis,
          algOp, algBase, algCuts, algGap, algOut,
          analyzer, buffer, anaOp, anaOut,
          export_index, current, last_set,
          is_processing, controls, progress_text, dialog, workers, video_processor,
          cancelled, cancel_confirmed, after_queue>>

NoAnalysis == [kind |-> "none"]

RunInit ==
    /\ pc = "idle"
    /\ _cancelled = FALSE
    /\ cancel_requested = FALSE
    /\ closes = 0
    /\ audio_segment = "unset"
    /\ detector = "none"
    /\ word_events = <<>>
    /\ oracle_speech = <<>>
    /\ filler_segments = <<>>
    /\ speech_segments = <<>>
    /\ subclips = <<>>
    /\ result = "none"
    /\ progress = <<0, 1>>
    /\ message = ""
    /\ output = "none"
    /\ analysis = NoAnalysis
    /\ export_index = 0

\* Settings.__init__ with no configuration file to load: the defaults, with
\* the three numeric keys in tenths (-40.0 dB, 2.0 s, 0.1 s)
SettingKeys == {"silence_threshold", "min_silence_duration", "fade_duration"}

defaults ==
    [key \in SettingKeys |->
        CASE key = "silence_threshold" -> -400
          [] key = "min_silence_duration" -> 20
          [] key = "fade_duration" -> 1]

NeverSet == [key \in SettingKeys |-> <<>>]

SetIdle ==
    /\ current = defaults
    /\ last_set = NeverSet

\* MainWindow.__init__: nothing is being processed and no thread exists
MaxWorkers == 2
MaxQueue == 2
Workers == 1..MaxWorkers

GuiIdle ==
    /\ is_processing = FALSE
    /\ controls = "normal"
    /\ progress_text = "Ready"
    /\ dialog = "none"
    /\ workers = [w \in Workers |-> "unstarted"]
    /\ video_processor = 0
    /\ cancelled = {}
    /\ cancel_confirmed = {}
    /\ after_queue = <<>>

AlgIdle ==
    /\ algOp = "input"
    /\ algBase = <<>>
    /\ algCuts = <<>>
    /\ algGap = 0
    /\ algOut = <<>>

\* ------------------------------------------------------------------------
\* AudioAnalyzer: the energy-based classifier.  An audio buffer is a record
\* [length, frames]: its length in milliseconds and, for each 100 ms frame,
\* the frame's level in dB and its speech-band ratio in percent.  Thresholds
\* are carried in fifths of a dB, which keeps the 20th percentile exact.
\* ------------------------------------------------------------------------
frame_duration == 100       \* self.frame_duration = 0.1 s, in milliseconds

RECURSIVE InsertInt(_, _)
InsertInt(x, s) ==
    IF s = <<>> THEN <<x>>
    ELSE IF x <= Head(s) THEN <<x>> \o s
    ELSE <<Head(s)>> \o InsertInt(x, Tail(s))

RECURSIVE SortedInts(_)
SortedInts(s) == IF s = <<>> THEN <<>> ELSE InsertInt(Head(s), SortedInts(Tail(s)))

\* 5 * np.percentile(db_values, 20), linear interpolation between the two
\* order statistics around position 0.2 * (n - 1)
Percentile20x5(db_values) ==
    LET v == SortedInts(db_values)
        n == Len(v)
        lo == (n - 1) \div 5
        r == (n - 1) % 5
    IN IF r = 0 THEN 5 * v[lo + 1]
       ELSE 5 * v[lo + 1] + r * (v[lo + 2] - v[lo + 1])

\* Mutant: when the dynamic candidate reaches the static threshold the upper
\* bound is returned instead of the candidate.
_adaptive_threshold_JumpsToBound(db_values, static_threshold) ==
    IF db_values = <<>> THEN 5 * static_threshold
    ELSE IF 5 * static_threshold <= Percentile20x5(db_values) + 30 THEN -100
    ELSE Min(5 * static_threshold, -100)

\* _adaptive_threshold, times 5
_adaptive_threshold(db_values, static_threshold) ==
    IF db_values = <<>> THEN 5 * static_threshold
    ELSE Min(Max(5 * static_threshold, Percentile20x5(db_values) + 30), -100)

DbValues(frames) == [k \in DOMAIN frames |-> frames[k].db]

\* Mutant: silence needs the energy to be 2 dB below the threshold, which
\* leaves the band under the threshold to the speech test alone.
IsSilentFrameBelowBand(f, threshold5) ==
    \/ 5 * f.db < threshold5 - 10
    \/ (5 * f.db < threshold5 + 15 /\ f.ratio < 35)

\* the frame test of detect_silence_segments (line 201)
IsSilentFrame(f, threshold5) ==
    \/ 5 * f.db < threshold5
    \/ (5 * f.db < threshold5 + 15 /\ f.ratio < 35)

\* the frame test of find_speech_segments (line 242)
IsSpeechFrame(f, threshold5) ==
    5 * f.db >= threshold5 - 10 /\ f.ratio >= 35

\* the scan of lines 194-215; current_segment_start = -1 stands for None
RECURSIVE SilenceScan(_, _, _, _, _, _)
SilenceScan(frames, i, threshold5, current_segment_start, silence_segments, min_duration) ==
    IF i = Len(frames)
    THEN IF current_segment_start # -1
            /\ Len(frames) * frame_duration - current_segment_start >= min_duration
         THEN Append(silence_segments, <<current_segment_start, Len(frames) * frame_duration>>)
         ELSE silence_segments
    ELSE LET start_time == i * frame_duration
             end_time == (i + 1) * frame_duration
         IN IF IsSilentFrame(frames[i + 1], threshold5)
            THEN SilenceScan(frames, i + 1, threshold5,
                             IF current_segment_start = -1 THEN start_time ELSE current_segment_start,
                             silence_segments, min_duration)
            ELSE IF current_segment_start # -1
            THEN SilenceScan(frames, i + 1, threshold5, -1,
                             IF end_time - current_segment_start >= min_duration
                             THEN Append(silence_segments, <<current_segment_start, end_time>>)
                             ELSE silence_segments,
                             min_duration)
            ELSE SilenceScan(frames, i + 1, threshold5, -1, silence_segments, min_duration)

detect_silence_segments(audio, static_threshold, min_duration) ==
    SilenceScan(audio.frames, 0,
                _adaptive_threshold(DbValues(audio.frames), static_threshold),
                -1, <<>>, min_duration)

\* Mutant: the test current_start < silence_start is missing, so a silence
\* range that starts where the previous one ended (or at 0) leaves an empty
\* speech range behind.
RECURSIVE FallbackScanNoGuard(_, _, _, _)
FallbackScanNoGuard(silence_segments, current_start, total_duration, speech) ==
    IF silence_segments = <<>>
    THEN IF current_start < total_duration
         THEN Append(speech, <<current_start, total_duration>>)
         ELSE speech
    ELSE LET silence_start == Head(silence_segments)[1]
             silence_end == Head(silence_segments)[2]
         IN FallbackScanNoGuard(Tail(silence_segments), silence_end, total_duration,
                                Append(speech, <<current_start, silence_start>>))

\* the loop of lines 273-278 of _fallback_speech_segments
RECURSIVE FallbackScan(_, _, _, _)
FallbackScan(silence_segments, current_start, total_duration, speech) ==
    IF silence_segments = <<>>
    THEN IF current_start < total_duration
         THEN Append(speech, <<current_start, total_duration>>)
         ELSE speech
    ELSE LET silence_start == Head(silence_segments)[1]
             silence_end == Head(silence_segments)[2]
         IN FallbackScan(Tail(silence_segments), silence_end, total_duration,
                         IF current_start < silence_start
                         THEN Append(speech, <<current_start, silence_start>>)
                         ELSE speech)

_fallback_speech_segments(audio, static_threshold, min_duration) ==
    LET silence_segments == detect_silence_segments(audio, static_threshold, min_duration)
    IN IF silence_segments = <<>> THEN <<<<0, audio.length>>>>
       ELSE FallbackScan(silence_segments, 0, audio.length, <<>>)

\* the scan of lines 237-257; current_start = -1 stands for None
RECURSIVE SpeechScan(_, _, _, _, _)
SpeechScan(frames, i, threshold5, current_start, speech) ==
    IF i = Len(frames)
    THEN IF current_start # -1
         THEN Append(speech, <<current_start, Len(frames) * frame_duration>>)
         ELSE speech
    ELSE LET start_time == i * frame_duration
             end_time == (i + 1) * frame_duration
         IN IF IsSpeechFrame(frames[i + 1], threshold5)
            THEN SpeechScan(frames, i + 1, threshold5,
                            IF current_start = -1 THEN start_time ELSE current_start, speech)
            ELSE IF current_start # -1
            THEN SpeechScan(frames, i + 1, threshold5, -1,
                            Append(speech, <<current_start, end_time>>))
            ELSE SpeechScan(frames, i + 1, threshold5, -1, speech)

find_speech_segments(audio, static_threshold, min_duration) ==
    LET primary == SpeechScan(audio.frames, 0,
                              _adaptive_threshold(DbValues(audio.frames), static_threshold),
                              -1, <<>>)
    IN IF primary = <<>>
       THEN _fallback_speech_segments(audio, static_threshold, min_duration)
       ELSE primary

\* Audio buffers the classifier could be given: frames of a few levels and
\* ratios, the last frame full or cut in half
FrameKinds == [db : {-50, -30, -10}, ratio : {10, 60}]

AudioBuffers ==
    UNION {{[length |-> n * frame_duration - cut, frames |-> fs] :
              cut \in {0, 50}, fs \in [1..n -> FrameKinds]} : n \in 1..MaxFrames}

\* an AudioSegment with no samples
EmptyBuffer == [length |-> 0, frames |-> <<>>]

\* range(0, stop, step) for a positive step
RECURSIVE RangeFrom(_, _, _)
RangeFrom(i, stop, step) ==
    IF i >= stop THEN <<>> ELSE <<i>> \o RangeFrom(i + step, stop, step)

\* calculate_rms_energy(audio_segment, frame_duration), frame_duration given
\* in microseconds: one value per frame of int(frame_duration * 1000)
\* milliseconds (the model keeps the frame's offset in place of its RMS
\* value); range() raises ValueError when that frame length is 0
calculate_rms_energy(audio, frame_duration_us) ==
    LET frame_length == frame_duration_us \div 1000
    IN IF frame_length = 0
       THEN [error |-> "ValueError", values |-> <<>>]
       ELSE [error |-> "none", values |-> RangeFrom(0, audio.length, frame_length)]

\* _compute_db_values: rms_to_db of each value, for self.frame_duration
_compute_db_values(audio) == calculate_rms_energy(audio, 1000 * frame_duration)

\* _compute_speech_band_ratio: one ratio per frame of self.frame_duration
_compute_speech_band_ratio(audio) ==
    [error |-> "none", values |-> RangeFrom(0, audio.length, frame_duration)]

\* ------------------------------------------------------------------------
\* Inputs of a run
\* ------------------------------------------------------------------------
Texts == {"Um", "hello"}

\* a WordEvent of the recognizer: text, start, end with end >= start
WordEvents == {w \in [word : Texts, start : 0..MaxWordTime, end : 0..MaxWordTime] :
                 w.start <= w.end}

WordSeqs == SeqsUpTo(WordEvents, MaxWords)

\* ------------------------------------------------------------------------
\* VideoProcessor.analyze_video as a function of what its collaborators give
\* ------------------------------------------------------------------------
\* Mutant: the detector.enabled test of lines 318-319 is missing, so a disabled
\* detector (whose detect_* calls return []) yields statistics.
analyze_video_NoEnabledCheck(opens, audio, det, words, original_duration) ==
    IF ~opens THEN [kind |-> "error", error |-> "could not open video"]
    ELSE IF audio = "None"
    THEN [kind |-> "error", error |-> "Could not extract audio from video"]
    ELSE LET speech == IF det = "disabled" THEN <<>> ELSE detect_speech_segments(words)
             fillers == IF det = "disabled" THEN <<>> ELSE detect_fillers(words)
             kept == IF fillers # <<>> THEN _subtract_intervals(speech, fillers) ELSE speech
             total_speech_time == TotalTime(kept)
             silence_time == original_duration - total_speech_time
         IN [kind |-> "stats",
             original_duration |-> original_duration,
             speech_segments |-> kept,
             total_speech_time |-> total_speech_time,
             silence_time |-> silence_time,
             silence_percentage |-> IF original_duration > 0
                                    THEN <<silence_time * 100, original_duration>>
                                    ELSE <<0, 1>>,
             expected_output_duration |-> total_speech_time,
             time_saved |-> silence_time]

analyze_video(opens, audio, det, words, original_duration) ==
    IF ~opens THEN [kind |-> "error", error |-> "could not open video"]
    ELSE IF audio = "None"
    THEN [kind |-> "error", error |-> "Could not extract audio from video"]
    ELSE IF det = "disabled"
    THEN [kind |-> "error", error |-> "ASR model not available. Please install a Vosk model and set VOSK_MODEL."]
    ELSE LET speech == detect_speech_segments(words)
             fillers == detect_fillers(words)
             kept == IF fillers # <<>> THEN _subtract_intervals(speech, fillers) ELSE speech
             total_speech_time == TotalTime(kept)
             silence_time == original_duration - total_speech_time
         IN [kind |-> "stats",
             original_duration |-> original_duration,
             speech_segments |-> kept,
             total_speech_time |-> total_speech_time,
             silence_time |-> silence_time,
             \* (silence_time / original_duration) * 100 as a fraction
             silence_percentage |-> IF original_duration > 0
                                    THEN <<silence_time * 100, original_duration>>
                                    ELSE <<0, 1>>,
             expected_output_duration |-> total_speech_time,
             time_saved |-> silence_time]

\* ------------------------------------------------------------------------
\* VideoProcessor.process_video, one action per stretch of code between two
\* points where another thread's cancel() can be observed
\* ------------------------------------------------------------------------
\* a percentage is a fraction <<numerator, denominator>>
Pct(n) == <<n, 1>>

Report(p, m) == progress' = p /\ message' = m

\* the outer handler of lines 242-245: report the error, return False
Fail(err) ==
    /\ pc' = "done"
    /\ result' = "False"
    /\ Report(Pct(0), err)

\* a cancellation checkpoint that found _cancelled set: close, report, return False
Abort ==
    /\ pc' = "done"
    /\ result' = "False"
    /\ closes' = closes + 1
    /\ Report(Pct(0), "Processing cancelled")

\* the clean-up and return of lines 233-241 (and 93-95, 176-178)
Complete(written) ==
    /\ pc' = "done"
    /\ result' = "True"
    /\ closes' = closes + 1
    /\ output' = written
    /\ Report(Pct(100), "Processing complete!")

\* lines 48-68: a call of process_video, the first one on this VideoProcessor
\* or a later one after the previous call returned.  The call starts with
\* fresh locals; self._cancelled is whatever the object holds.
Start ==
    /\ pc \in {"idle", "done"}
    /\ \E exists \in BOOLEAN :
        IF exists
        THEN /\ pc' = "load_video"
             /\ Report(Pct(0), "Loading video file...")
             /\ result' = "none"
        ELSE Fail("Error: Input file not found")
    /\ cancel_requested' = FALSE
    /\ closes' = 0
    /\ audio_segment' = "unset"
    /\ detector' = "none"
    /\ word_events' = <<>>
    /\ oracle_speech' = <<>>
    /\ filler_segments' = <<>>
    /\ speech_segments' = <<>>
    /\ subclips' = <<>>
    /\ output' = "none"
    /\ UNCHANGED <<_cancelled, analysis, export_index,
                   algVars, anaVars, setVars, guiVars>>

\* lines 71-72
LoadVideo ==
    /\ pc = "load_video"
    /\ \E opens \in BOOLEAN :
        IF opens
        THEN /\ pc' = "cancel_check_1"
             /\ UNCHANGED <<result, progress, message>>
        ELSE Fail("Error: could not open video")
    /\ UNCHANGED <<_cancelled, cancel_requested, closes, audio_segment, detector, word_events,
                   oracle_speech, filler_segments, speech_segments, subclips,
                   output, analysis, export_index,
                   algVars, anaVars, setVars, guiVars>>

\* lines 74-79
CheckCancelled1 ==
    /\ pc = "cancel_check_1"
    /\ IF _cancelled
       THEN Abort
       ELSE /\ pc' = "load_audio"
            /\ Report(Pct(10), "Extracting audio...")
            /\ UNCHANGED <<result, closes>>
    /\ UNCHANGED <<_cancelled, cancel_requested, audio_segment, detector, word_events,
                   oracle_speech, filler_segments, speech_segments, subclips,
                   output, analysis, export_index,
                   algVars, anaVars, setVars, guiVars>>

\* line 82: load_audio_from_video returns None or an AudioSegment
LoadAudio ==
    /\ pc = "load_audio"
    /\ \E a \in {"None", "audio"} : audio_segment' = a
    /\ pc' = "cancel_check_2"
    /\ UNCHANGED <<_cancelled, cancel_requested, closes, detector, word_events,
                   oracle_speech, filler_segments, speech_segments, subclips,
                   result, progress, message, output, analysis, export_index,
                   algVars, anaVars, setVars, guiVars>>

\* Mutant: a missing audio track is not noticed and the run goes on to the ASR.
CheckCancelled2IgnoresNoAudio ==
    /\ pc = "cancel_check_2"
    /\ IF _cancelled
       THEN Abort
       ELSE /\ pc' = "asr_init"
            /\ Report(Pct(20), "Running ASR to detect speech and fillers...")
            /\ UNCHANGED <<result, closes>>
    /\ UNCHANGED <<_cancelled, cancel_requested, audio_segment, detector, word_events,
                   oracle_speech, filler_segments, speech_segments, subclips,
                   output, analysis, export_index,
                   algVars, anaVars, setVars, guiVars>>

\* lines 83-89 and 97
CheckCancelled2 ==
    /\ pc = "cancel_check_2"
    /\ IF _cancelled
       THEN Abort
       ELSE IF audio_segment = "None"
       THEN /\ pc' = "export_original"
            /\ Report(Pct(20), "No audio track detected; exporting original video")
            /\ UNCHANGED <<result, closes>>
       ELSE /\ pc' = "asr_init"
            /\ Report(Pct(20), "Running ASR to detect speech and fillers...")
            /\ UNCHANGED <<result, closes>>
    /\ UNCHANGED <<_cancelled, cancel_requested, audio_segment, detector, word_events,
                   oracle_speech, filler_segments, speech_segments, subclips,
                   output, analysis, export_index,
                   algVars, anaVars, setVars, guiVars>>

\* lines 90-95: _export_clip(video_clip) with the clip closed in the finally
ExportOriginal ==
    /\ pc = "export_original"
    /\ \E written \in BOOLEAN :
        IF written
        THEN Complete("original")
        ELSE /\ Fail("Error: export failed")
             /\ closes' = closes + 1
             /\ UNCHANGED output
    /\ export_index' = 0
    /\ UNCHANGED <<_cancelled, cancel_requested, audio_segment, detector, word_events,
                   oracle_speech, filler_segments, speech_segments, subclips,
                   analysis,
                   algVars, anaVars, setVars, guiVars>>

\* lines 100-106 (and the handlers of 124-127, 242-245 when disabled):
\* ASRFillerDetector() is built here, enabled or not
AsrInit ==
    /\ pc = "asr_init"
    /\ \E en \in {"enabled", "disabled"} :
        /\ detector' = en
        /\ IF en = "enabled"
           THEN /\ pc' = "detect_speech"
                /\ UNCHANGED <<result, progress, message, closes>>
           ELSE /\ Fail("Error: ASR model not available")
                /\ closes' = closes + 2
    /\ UNCHANGED <<_cancelled, cancel_requested, audio_segment, word_events,
                   oracle_speech, filler_segments, speech_segments, subclips,
                   output, analysis, export_index,
                   algVars, anaVars, setVars, guiVars>>

\* lines 109-114: detect_speech_segments consumes the audio; the recognizer
\* reports some sequence of word events for it
DetectSpeech ==
    /\ pc = "detect_speech"
    /\ \E w \in WordSeqs :
        /\ word_events' = w
        /\ oracle_speech' = detect_speech_segments(w)
        /\ speech_segments' = detect_speech_segments(w)
    /\ pc' = "detect_fillers"
    /\ Report(Pct(24), "Running ASR (speech)...")
    /\ UNCHANGED <<_cancelled, cancel_requested, closes, audio_segment, detector,
                   filler_segments, subclips, result, output, analysis, export_index,
                   algVars, anaVars, setVars, guiVars>>

\* Mutant: the fillers are detected but never cut out of the speech ranges.
DetectFillersNoSubtract ==
    /\ pc = "detect_fillers"
    /\ filler_segments' = detect_fillers(word_events)
    /\ Report(Pct(28), "Running ASR (fillers)...")
    /\ word_events' = <<>>
    /\ pc' = "check_speech"
    /\ UNCHANGED <<_cancelled, cancel_requested, closes, audio_segment, detector, oracle_speech,
                   speech_segments, subclips, result, output, analysis, export_index,
                   algVars, anaVars, setVars, guiVars>>

\* lines 115-123: detect_fillers runs the recognizer over the same audio,
\* then the fillers are cut out of the speech ranges.  The recognizer and its
\* word lists are locals of the two detector calls and are gone afterwards.
DetectFillers ==
    /\ pc = "detect_fillers"
    /\ LET fillers == detect_fillers(word_events)
       IN /\ filler_segments' = fillers
          /\ IF fillers # <<>>
             THEN /\ Report(Pct(28), "Detected filler ranges via ASR")
                  /\ speech_segments' = _subtract_intervals(speech_segments, fillers)
             ELSE /\ Report(Pct(28), "Running ASR (fillers)...")
                  /\ UNCHANGED speech_segments
    /\ word_events' = <<>>
    /\ pc' = "check_speech"
    /\ UNCHANGED <<_cancelled, cancel_requested, closes, audio_segment, detector, oracle_speech,
                   subclips, result, output, analysis, export_index,
                   algVars, anaVars, setVars, guiVars>>

\* lines 124-127 and 242-245: the recognizer raises inside the ASR block
AsrRaises ==
    /\ pc \in {"detect_speech", "detect_fillers"}
    /\ Fail("Error: ASR failed")
    /\ closes' = closes + 1
    /\ word_events' = <<>>
    /\ UNCHANGED <<_cancelled, cancel_requested, audio_segment, detector, oracle_speech,
                   filler_segments, speech_segments, subclips, output, analysis,
                   export_index,
                   algVars, anaVars, setVars, guiVars>>

\* Mutant: the empty-list test of lines 129-132 is missing; the subclip loop
\* then runs zero times.
CheckSpeechNoGuard ==
    /\ pc = "check_speech"
    /\ pc' = IF speech_segments = <<>> THEN "concatenate" ELSE "create_segments"
    /\ Report(Pct(40), "Creating video segments...")
    /\ UNCHANGED <<result, closes>>
    /\ UNCHANGED <<_cancelled, cancel_requested, audio_segment, detector, word_events,
                   oracle_speech, filler_segments, speech_segments, subclips,
                   output, analysis, export_index,
                   algVars, anaVars, setVars, guiVars>>

\* lines 129-139
CheckSpeech ==
    /\ pc = "check_speech"
    /\ IF speech_segments = <<>>
       THEN /\ Fail("Error: No speech detected by ASR; nothing to cut")
            /\ closes' = closes + 1
       ELSE /\ pc' = "create_segments"
            /\ Report(Pct(40), "Creating video segments...")
            /\ UNCHANGED <<result, closes>>
    /\ UNCHANGED <<_cancelled, cancel_requested, audio_segment, detector, word_events,
                   oracle_speech, filler_segments, speech_segments, subclips,
                   output, analysis, export_index,
                   algVars, anaVars, setVars, guiVars>>

\* lines 143-161: one iteration of the subclip loop, then the checkpoint
CreateSegment ==
    /\ pc = "create_segments"
    /\ LET i == Len(subclips)
           n == Len(speech_segments)
       IN \E raises \in BOOLEAN :
            IF raises
            THEN /\ Fail("Error: segment creation failed")
                 /\ UNCHANGED <<subclips, closes>>
            ELSE /\ subclips' = Append(subclips, speech_segments[i + 1])
                 /\ IF _cancelled
                    THEN Abort
                    ELSE /\ pc' = IF i + 1 = n THEN "concatenate" ELSE "create_segments"
                         /\ Report(<<40 * n + 10 * (i + 1), n>>, "Processing segment")
                         /\ UNCHANGED <<result, closes>>
    /\ UNCHANGED <<_cancelled, cancel_requested, audio_segment, detector, word_events,
                   oracle_speech, filler_segments, speech_segments,
                   output, analysis, export_index,
                   algVars, anaVars, setVars, guiVars>>

\* lines 163-170: concatenate_videoclips, or the fall back to the original
Concatenate ==
    /\ pc = "concatenate"
    /\ \E ok \in BOOLEAN :
        IF ok
        THEN /\ pc' = "cancel_check_3"
             /\ Report(Pct(50), "Concatenating video segments...")
        ELSE /\ pc' = "export_fallback"
             /\ Report(Pct(55), "Concatenation failed; exporting original video")
    /\ UNCHANGED <<_cancelled, cancel_requested, closes, audio_segment, detector, word_events,
                   oracle_speech, filler_segments, speech_segments, subclips,
                   result, output, analysis, export_index,
                   algVars, anaVars, setVars, guiVars>>

\* lines 171-178
ExportFallback ==
    /\ pc = "export_fallback"
    /\ \E written \in BOOLEAN :
        IF written
        THEN Complete("original")
        ELSE /\ Fail("Error: export failed")
             /\ closes' = closes + 1
             /\ UNCHANGED output
    /\ export_index' = 0
    /\ UNCHANGED <<_cancelled, cancel_requested, audio_segment, detector, word_events,
                   oracle_speech, filler_segments, speech_segments, subclips,
                   analysis,
                   algVars, anaVars, setVars, guiVars>>

\* lines 180-193
CheckCancelled3 ==
    /\ pc = "cancel_check_3"
    /\ IF _cancelled
       THEN Abort
       ELSE \E enable_audio_normalization \in BOOLEAN :
              /\ IF enable_audio_normalization
                 THEN pc' = "normalize" /\ Report(Pct(70), "Normalizing audio...")
                 ELSE pc' = "export" /\ Report(Pct(80), "Writing final video to disk...")
              /\ UNCHANGED <<result, closes>>
    /\ UNCHANGED <<_cancelled, cancel_requested, audio_segment, detector, word_events,
                   oracle_speech, filler_segments, speech_segments, subclips,
                   output, analysis, export_index,
                   algVars, anaVars, setVars, guiVars>>

\* lines 191-193
Normalize ==
    /\ pc = "normalize"
    /\ pc' = "export"
    /\ Report(Pct(80), "Writing final video to disk...")
    /\ UNCHANGED <<_cancelled, cancel_requested, closes, audio_segment, detector, word_events,
                   oracle_speech, filler_segments, speech_segments, subclips,
                   result, output, analysis, export_index,
                   algVars, anaVars, setVars, guiVars>>

\* lines 195-217 and 233-241: the first write_videofile
Export ==
    /\ pc = "export"
    /\ \E written \in BOOLEAN :
        IF written
        THEN Complete("edited")
        ELSE /\ pc' = "export_retry"
             /\ Report(Pct(85), "Export failed; retrying with safe codec settings...")
             /\ UNCHANGED <<result, closes, output>>
    /\ export_index' = 0
    /\ UNCHANGED <<_cancelled, cancel_requested, audio_segment, detector, word_events,
                   oracle_speech, filler_segments, speech_segments, subclips,
                   analysis,
                   algVars, anaVars, setVars, guiVars>>

\* lines 218-245: the retry; a second failure reaches the outer handler
ExportRetry ==
    /\ pc = "export_retry"
    /\ \E written \in BOOLEAN :
        IF written
        THEN Complete("edited")
        ELSE /\ Fail("Error: export failed")
             /\ UNCHANGED <<closes, output>>
    /\ export_index' = 0
    /\ UNCHANGED <<_cancelled, cancel_requested, audio_segment, detector, word_events,
                   oracle_speech, filler_segments, speech_segments, subclips,
                   analysis,
                   algVars, anaVars, setVars, guiVars>>

\* lines 404-436: the export logger's bars_callback.  The running
\* write_videofile moves its 't' bar forward to index idx of ExportTotal and
\* the logger reports start + (end - start) * idx / total
ExportStartPct == [export_original |-> 80, export_fallback |-> 80, export |-> 80,
                   export_retry |-> 85]

ExportProgress ==
    /\ pc \in DOMAIN ExportStartPct
    /\ \E idx \in (export_index + 1)..ExportTotal :
        /\ export_index' = idx
        /\ Report(<<ExportStartPct[pc] * ExportTotal + (99 - ExportStartPct[pc]) * idx,
                    ExportTotal>>,
                  IF pc = "export_retry" THEN "Writing final video (retry) to disk..."
                                         ELSE "Writing final video to disk...")
    /\ UNCHANGED <<pc, _cancelled, cancel_requested, closes, audio_segment, detector,
                   word_events, oracle_speech, filler_segments, speech_segments, subclips,
                   result, output, analysis,
                   algVars, anaVars, setVars, guiVars>>

\* VideoProcessor.cancel(), called from another thread while a run is going
\* (one request per call of process_video)
Cancel ==
    /\ pc \notin {"idle", "done", "analyzed"}
    /\ ~cancel_requested
    /\ _cancelled' = TRUE
    /\ cancel_requested' = TRUE
    /\ Report(Pct(0), "Cancelling...")
    /\ UNCHANGED <<pc, closes, audio_segment, detector, word_events,
                   oracle_speech, filler_segments, speech_segments, subclips,
                   result, output, analysis, export_index,
                   algVars, anaVars, setVars, guiVars>>

\* VideoProcessor.analyze_video, a call of its own
AnalyzeVideo ==
    /\ pc = "idle"
    /\ \E opens \in BOOLEAN, a \in {"None", "audio"}, det \in {"enabled", "disabled"},
          w \in WordSeqs :
        /\ (~opens \/ a = "None" \/ det = "disabled") => w = <<>>
        /\ ~opens => (a = "None" /\ det = "disabled")
        /\ audio_segment' = a
        /\ detector' = det
        /\ word_events' = w
        /\ analysis' = analyze_video(opens, a, det, w, ClipDuration)
    /\ pc' = "analyzed"
    /\ UNCHANGED <<_cancelled, cancel_requested, closes, oracle_speech, filler_segments,
                   speech_segments, subclips, result, progress, message, output,
                   export_index,
                   algVars, anaVars, setVars, guiVars>>

\* line 35: the AudioAnalyzer the VideoProcessor builds, not yet used
AnaIdle ==
    /\ analyzer = [silence_threshold |-> silence_threshold,
                   min_silence_duration |-> min_silence_duration]
    /\ buffer = EmptyBuffer
    /\ anaOp = "input"
    /\ anaOut = <<>>

Init == RunInit /\ AlgIdle /\ AnaIdle /\ SetIdle /\ GuiIdle

Next ==
    \/ Start
    \/ LoadVideo
    \/ CheckCancelled1
    \/ LoadAudio
    \/ CheckCancelled2
    \/ ExportOriginal
    \/ AsrInit
    \/ DetectSpeech
    \/ DetectFillers
    \/ AsrRaises
    \/ CheckSpeech
    \/ CreateSegment
    \/ Concatenate
    \/ ExportFallback
    \/ CheckCancelled3
    \/ Normalize
    \/ Export
    \/ ExportRetry
    \/ ExportProgress
    \/ Cancel
    \/ AnalyzeVideo

Spec == Init /\ [][Next]_vars

\* ------------------------------------------------------------------------
\* The interval algebra on its own: inputs drawn from bounded sets
\* ------------------------------------------------------------------------
Intervals == {iv \in (0..MaxTime) \X (0..MaxTime) : iv[1] <= iv[2]}

AlgInit ==
    /\ algOp = "input"
    /\ \E nb \in 0..MaxIntervals :
        /\ algBase \in [1..nb -> Intervals]
        /\ algCuts \in SeqsUpTo(Intervals, MaxIntervals - nb)
    /\ algGap = 0
    /\ algOut = <<>>
    /\ RunInit
    /\ AnaIdle
    /\ SetIdle
    /\ GuiIdle

Subtract ==
    /\ algOp = "input"
    /\ algOp' = "subtract"
    /\ algOut' = _subtract_intervals(algBase, algCuts)
    /\ UNCHANGED <<algBase, algCuts, algGap>>
    /\ UNCHANGED runVars
    /\ UNCHANGED <<anaVars, setVars, guiVars>>

Merge ==
    /\ algOp = "input"
    /\ algCuts = <<>>
    /\ \E g \in 0..MaxGap :
        /\ algGap' = g
        /\ algOut' = _merge_adjacent(algBase, g)
    /\ algOp' = "merge"
    /\ UNCHANGED <<algBase, algCuts>>
    /\ UNCHANGED runVars
    /\ UNCHANGED <<anaVars, setVars, guiVars>>

AlgNext == Subtract \/ Merge

SpecAlgebra == AlgInit /\ [][AlgNext]_vars

\* ------------------------------------------------------------------------
\* Settings on its own: an object is built on a machine with no configuration
\* file, then keys are set and the settings reset in any order
\* ------------------------------------------------------------------------
\* values given to set(), in tenths: -40.0, -35.0, 0.1, 0.5, 2.0
SettingValues == {-400, -350, 1, 5, 20}

\* Settings.get(key, default)
get(key, default) == IF key \in DOMAIN current THEN current[key] ELSE default

SettingsInit ==
    /\ current = [key \in {} |-> 0]
    /\ last_set = NeverSet
    /\ RunInit
    /\ AlgIdle
    /\ AnaIdle
    /\ GuiIdle

\* Settings(): defaults copied, load() finds no file
SettingsNew ==
    /\ DOMAIN current = {}
    /\ current' = defaults
    /\ last_set' = NeverSet
    /\ UNCHANGED <<runVars, algVars, anaVars, guiVars>>

\* Settings.set(key, value)
SettingsSet ==
    /\ DOMAIN current # {}
    /\ \E key \in SettingKeys, value \in SettingValues :
        /\ current' = [current EXCEPT ![key] = value]
        /\ last_set' = [last_set EXCEPT ![key] = <<value>>]
    /\ UNCHANGED <<runVars, algVars, anaVars, guiVars>>

\* Settings.reset_to_defaults()
SettingsReset ==
    /\ DOMAIN current # {}
    /\ current' = defaults
    /\ last_set' = NeverSet
    /\ UNCHANGED <<runVars, algVars, anaVars, guiVars>>

SettingsNext == SettingsNew \/ SettingsSet \/ SettingsReset

SpecSettings == SettingsInit /\ [][SettingsNext]_vars

\* ------------------------------------------------------------------------
\* MainWindow: the Process and Cancel buttons, the processing threads and the
\* callbacks the threads hand to the Tk main loop with root.after(0, ...)
\* ------------------------------------------------------------------------
\* a callback waiting in the main loop: the function, the status text it
\* carries, the thread it is from (0: the main thread) and whether that
\* thread's run had been cancelled by the user when it was posted
Callback(fn, status, w) ==
    [fn |-> fn, status |-> status, w |-> w, by_cancelled |-> w \in cancel_confirmed]

\* MainWindow.set_controls_state(state): the Process button takes the state,
\* the Cancel button the opposite one
set_controls_state(state) == controls' = state

\* lines 368-403: the Process button, with inputs that pass the validations;
\* the thread is started and has not yet run
ClickProcess ==
    /\ controls = "normal"
    /\ \E w \in Workers :
        /\ workers[w] = "unstarted"
        /\ \A v \in Workers : v < w => workers[v] # "unstarted"
        /\ workers' = [workers EXCEPT ![w] = "started"]
    /\ set_controls_state("disabled")
    /\ is_processing' = TRUE
    /\ progress_text' = "Initializing..."
    /\ UNCHANGED <<dialog, video_processor, cancelled, cancel_confirmed, after_queue>>
    /\ UNCHANGED <<runVars, algVars, anaVars, setVars>>

\* lines 407-415: the thread builds its VideoProcessor and stores it in the
\* window, then enters VideoProcessor.process_video
WorkerCreateProcessor ==
    /\ \E w \in Workers :
        /\ workers[w] = "started"
        /\ workers' = [workers EXCEPT ![w] = "running"]
        /\ video_processor' = w
    /\ UNCHANGED <<is_processing, controls, progress_text, dialog, cancelled,
                   cancel_confirmed, after_queue>>
    /\ UNCHANGED <<runVars, algVars, anaVars, setVars>>

\* lines 432-434: process_video reports progress through update_progress
WorkerProgress ==
    /\ Len(after_queue) < MaxQueue
    /\ \E w \in Workers :
        /\ workers[w] = "running"
        /\ after_queue' = Append(after_queue,
                                 Callback("_update_progress_gui", "Extracting audio...", w))
    /\ UNCHANGED <<is_processing, controls, progress_text, dialog, workers,
                   video_processor, cancelled, cancel_confirmed>>
    /\ UNCHANGED <<runVars, algVars, anaVars, setVars>>

\* lines 418-430: process_video returns True or False (False at the latest
\* when a checkpoint saw the cancellation) and the thread posts the outcome
WorkerReturn ==
    /\ Len(after_queue) < MaxQueue
    /\ \E w \in Workers, success \in BOOLEAN :
        /\ workers[w] = "running"
        /\ workers' = [workers EXCEPT ![w] = "returned"]
        /\ after_queue' = Append(after_queue,
                                 IF success
                                 THEN Callback("processing_complete", "", w)
                                 ELSE Callback("processing_failed", "Processing failed", w))
    /\ UNCHANGED <<is_processing, controls, progress_text, dialog,
                   video_processor, cancelled, cancel_confirmed>>
    /\ UNCHANGED <<runVars, algVars, anaVars, setVars>>

\* lines 479-490 and VideoProcessor.cancel (39-42): the Cancel button, the
\* question answered with yes.  cancel() sets the flag of the processor the
\* window holds and reports "Cancelling..." through the progress callback.
ClickCancel ==
    /\ controls = "disabled"
    /\ is_processing
    /\ video_processor # 0
    /\ Len(after_queue) < MaxQueue
    /\ cancelled' = cancelled \cup {video_processor}
    /\ after_queue' = Append(after_queue, Callback("_update_progress_gui", "Cancelling...", 0))
    /\ is_processing' = FALSE
    /\ set_controls_state("normal")
    /\ progress_text' = "Processing cancelled"
    /\ cancel_confirmed' = cancel_confirmed
                              \cup {w \in Workers : workers[w] \in {"started", "running"}}
    /\ UNCHANGED <<dialog, workers, video_processor>>
    /\ UNCHANGED <<runVars, algVars, anaVars, setVars>>

\* the Tk main loop runs the oldest waiting callback: _update_progress_gui
\* (436-444), processing_complete (447-465) or processing_failed (467-477)
MainLoop ==
    /\ after_queue # <<>>
    /\ after_queue' = Tail(after_queue)
    /\ LET cb == Head(after_queue)
       IN CASE cb.fn = "_update_progress_gui" ->
                 /\ progress_text' = IF cb.status # "" THEN cb.status ELSE progress_text
                 /\ UNCHANGED <<is_processing, controls, dialog>>
            [] cb.fn = "processing_complete" ->
                 /\ is_processing' = FALSE
                 /\ set_controls_state("normal")
                 /\ progress_text' = "Processing complete!"
                 /\ dialog' = "complete"
            [] cb.fn = "processing_failed" ->
                 /\ is_processing' = FALSE
                 /\ set_controls_state("normal")
                 /\ progress_text' = "Processing failed"
                 /\ dialog' = "error"
    /\ UNCHANGED <<workers, video_processor, cancelled, cancel_confirmed>>
    /\ UNCHANGED <<runVars, algVars, anaVars, setVars>>

GuiNext ==
    \/ ClickProcess
    \/ WorkerCreateProcessor
    \/ WorkerProgress
    \/ WorkerReturn
    \/ ClickCancel
    \/ MainLoop

SpecGui == Init /\ [][GuiNext]_vars

\* ------------------------------------------------------------------------
\* The ASR block of process_video on its own: the recognizer's word events
\* are drawn from a bounded set, then lines 109-123 run in one step and the
\* word events stay visible next to the lists made from them
\* ------------------------------------------------------------------------
OracleInit ==
    /\ pc = "detect_speech"
    /\ word_events \in WordSeqs
    /\ audio_segment = "audio"
    /\ detector = "enabled"
    /\ progress = Pct(20)
    /\ message = "Running ASR to detect speech and fillers..."
    /\ _cancelled = FALSE
    /\ cancel_requested = FALSE
    /\ closes = 0
    /\ oracle_speech = <<>>
    /\ filler_segments = <<>>
    /\ speech_segments = <<>>
    /\ subclips = <<>>
    /\ result = "none"
    /\ output = "none"
    /\ analysis = NoAnalysis
    /\ export_index = 0
    /\ AlgIdle
    /\ AnaIdle
    /\ SetIdle
    /\ GuiIdle

\* lines 109-123: detect_speech_segments, detect_fillers and the subtraction
AsrBlock ==
    /\ pc = "detect_speech"
    /\ LET speech == detect_speech_segments(word_events)
           fillers == detect_fillers(word_events)
       IN /\ oracle_speech' = speech
          /\ filler_segments' = fillers
          /\ IF fillers # <<>>
             THEN /\ Report(Pct(28), "Detected filler ranges via ASR")
                  /\ speech_segments' = _subtract_intervals(speech, fillers)
             ELSE /\ Report(Pct(28), "Running ASR (fillers)...")
                  /\ speech_segments' = speech
    /\ pc' = "check_speech"
    /\ UNCHANGED <<_cancelled, cancel_requested, closes, audio_segment, detector,
                   word_events, subclips, result, output, analysis, export_index,
                   algVars, anaVars, setVars, guiVars>>

SpecOracle == OracleInit /\ [][AsrBlock]_vars

\* ------------------------------------------------------------------------
\* The AudioAnalyzer on its own: an analyzer configuration and a buffer are
\* drawn from bounded sets, then one of its methods is called
\* ------------------------------------------------------------------------
StaticThresholds == {-60, -40, -28, -25, -20, -10}          \* dB
MinSilenceDurations == {100, 150, 200}                 \* ms
FrameDurations == {0, 500, 33500, 100000, 200000}      \* microseconds

AudioInit ==
    /\ analyzer \in [silence_threshold : StaticThresholds,
                     min_silence_duration : MinSilenceDurations]
    /\ buffer \in AudioBuffers \cup {EmptyBuffer}
    /\ anaOp = "input"
    /\ anaOut = <<>>
    /\ RunInit
    /\ AlgIdle
    /\ SetIdle
    /\ GuiIdle

AdaptiveThreshold ==
    /\ anaOp = "input"
    /\ anaOp' = "_adaptive_threshold"
    /\ anaOut' = _adaptive_threshold(DbValues(buffer.frames), analyzer.silence_threshold)
    /\ UNCHANGED <<analyzer, buffer, runVars, algVars, setVars, guiVars>>

DetectSilence ==
    /\ anaOp = "input"
    /\ anaOp' = "detect_silence_segments"
    /\ anaOut' = detect_silence_segments(buffer, analyzer.silence_threshold,
                                         analyzer.min_silence_duration)
    /\ UNCHANGED <<analyzer, buffer, runVars, algVars, setVars, guiVars>>

FindSpeech ==
    /\ anaOp = "input"
    /\ anaOp' = "find_speech_segments"
    /\ anaOut' = find_speech_segments(buffer, analyzer.silence_threshold,
                                      analyzer.min_silence_duration)
    /\ UNCHANGED <<analyzer, buffer, runVars, algVars, setVars, guiVars>>

FallbackSpeech ==
    /\ anaOp = "input"
    /\ anaOp' = "_fallback_speech_segments"
    /\ anaOut' = _fallback_speech_segments(buffer, analyzer.silence_threshold,
                                           analyzer.min_silence_duration)
    /\ UNCHANGED <<analyzer, buffer, runVars, algVars, setVars, guiVars>>

\* calculate_rms_energy with some frame duration, and _compute_speech_band_ratio
ComputeFrames ==
    /\ anaOp = "input"
    /\ anaOp' = "frames"
    /\ \E fd \in FrameDurations :
        anaOut' = [frame_duration |-> fd,
                   energy |-> calculate_rms_energy(buffer, fd),
                   ratio |-> _compute_speech_band_ratio(buffer)]
    /\ UNCHANGED <<analyzer, buffer, runVars, algVars, setVars, guiVars>>

AudioNext ==
    \/ AdaptiveThreshold
    \/ DetectSilence
    \/ FindSpeech
    \/ FallbackSpeech
    \/ ComputeFrames

SpecAudio == AudioInit /\ [][AudioNext]_vars

\* ========================================================================
\* Claims
\* ========================================================================
\* positions of process_video from the subclip loop on
ExtractionStages ==
    {"create_segments", "concatenate", "export_fallback", "cancel_check_3",
     "normalize", "export", "export_retry"}

ErrorMessages ==
    {"Error: Input file not found", "Error: could not open video",
     "Error: export failed", "Error: ASR model not available",
     "Error: ASR failed", "Error: No speech detected by ASR; nothing to cut",
     "Error: segment creation failed"}

\* the ranges the subclip loop has taken so far are the first ones of `ivs`
HandedFrom(ivs) ==
    /\ Len(subclips) <= Len(ivs)
    /\ subclips = SubSeq(ivs, 1, Len(subclips))
    /\ pc \in (ExtractionStages \ {"create_segments"}) => subclips = ivs

\* C1: once the oracle's speech ranges are non-empty and process_video is at
\* or past the subclip loop, the list the loop walks is
\* _subtract_intervals(speech, fillers) of the two detector outputs (which is
\* speech itself when there are no fillers), and the ranges handed to subclip
\* are that list, in order.
C1_HandedIsSpeechMinusFillers ==
    (oracle_speech # <<>> /\ (pc \in ExtractionStages \/ subclips # <<>>)) =>
        /\ speech_segments = _subtract_intervals(oracle_speech, filler_segments)
        /\ HandedFrom(_subtract_intervals(oracle_speech, filler_segments))
        /\ filler_segments = <<>> => speech_segments = oracle_speech

\* C1 witness: a filler in the middle of a speech range, both halves handed on
C1_Witness ==
    /\ pc = "concatenate"
    /\ filler_segments # <<>>
    /\ Len(oracle_speech) = 1
    /\ Len(subclips) = 2

\* C2: segment extraction and the export of an edited video are never reached
\* with an empty authoritative list; a run whose list came out empty ends with
\* an error report and the return value False, with nothing extracted or written.
C2_EmptyListIsHardFailure ==
    /\ (pc \in ExtractionStages \/ subclips # <<>> \/ output = "edited")
          => speech_segments # <<>>
    /\ (pc = "done" /\ detector = "enabled" /\ speech_segments = <<>>) =>
          /\ result = "False"
          /\ message \in ErrorMessages
          /\ subclips = <<>>
          /\ output = "none"

\* C2 witness: every recognized word was a filler, and the run failed
C2_Witness ==
    /\ pc = "done"
    /\ oracle_speech # <<>>
    /\ filler_segments # <<>>
    /\ speech_segments = <<>>
    /\ message = "Error: No speech detected by ASR; nothing to cut"

\* C3 (as claimed): the ranges handed to segment extraction are sorted by
\* start, pairwise non-overlapping and all within [0, buffer_duration].
C3_HandedSortedDisjointWithinBuffer ==
    /\ IsSortedByStart(subclips)
    /\ NonOverlapping(subclips)
    /\ \A k \in DOMAIN subclips : 0 <= subclips[k][1] /\ subclips[k][2] <= ClipDuration

\* C4: a time point is covered by _subtract_intervals(base, cuts) exactly when
\* it lies in some base interval and in no cut interval (endpoints are
\* integers, so the integer points decide the coverage of every real point).
C4_SubtractIsSetDifference ==
    algOp = "subtract" =>
        \A t \in 0..MaxTime :
            Covered(t, algOut) <=> (Covered(t, algBase) /\ ~Covered(t, algCuts))

\* C4 witness: unsorted cuts split one base interval in two
C4_Witness ==
    /\ algOp = "subtract"
    /\ Len(algCuts) = 2
    /\ algCuts[1][1] > algCuts[2][1]
    /\ Len(algOut) = 2

\* an interval lies inside a range (both ends included)
Within(iv, r) == r[1] <= iv[1] /\ iv[2] <= r[2]

OracleGaveNothing ==
    /\ pc \notin {"analyzed", "detect_speech", "detect_fillers"}
    /\ \/ detector = "disabled"
       \/ (detector = "enabled" /\ oracle_speech = <<>> /\ message # "Error: ASR failed")

C8_NoAudioExportsOriginal ==
    (audio_segment = "None" /\ ~_cancelled /\ pc # "analyzed") =>
        /\ pc \in {"cancel_check_2", "export_original", "done"}
        /\ detector = "none"
        /\ oracle_speech = <<>> /\ filler_segments = <<>> /\ subclips = <<>>
        /\ output # "edited"
        /\ pc = "done" =>
             \/ (result = "True" /\ output = "original"
                 /\ message = "Processing complete!")
             \/ (result = "False" /\ output = "none"
                 /\ message = "Error: export failed")

\* C8 witness: the original clip was exported and the run succeeded
C8_Witness ==
    /\ pc = "done"
    /\ audio_segment = "None"
    /\ ~_cancelled
    /\ result = "True"
    /\ output = "original"

\* what process_video returns when it fails with an error (line 245)
ResultOfFailedRun == "False"

\* C9 (as claimed): a run that stopped at a cancellation checkpoint returns a
\* result that is neither the result of a failed run nor that of a successful
\* one, and has written nothing.
C9_CancelledResultDistinguishable ==
    (pc = "done" /\ message = "Processing cancelled") =>
        /\ result # "True"
        /\ result # ResultOfFailedRun
        /\ output = "none"

\* C10 (as claimed): once cancel() was called during a run, that run never
\* writes the output file, reports completion or returns True.
C10_CancelAlwaysHonoured ==
    _cancelled =>
        ~(pc = "done" /\ (result = "True" \/ output # "none"
                          \/ message = "Processing complete!"))

\* C11 (as claimed): a call of process_video during which cancel() was not
\* requested is never aborted as cancelled, also when an earlier call on the
\* same VideoProcessor was cancelled.
C11_RetryNotAbortedAsCancelled ==
    (pc = "done" /\ message = "Processing cancelled") => cancel_requested

\* the list without its k-th element
Without(s, k) == SubSeq(s, 1, k - 1) \o SubSeq(s, k + 1, Len(s))

\* every reordering of a list
RECURSIVE Shuffles(_)
Shuffles(s) ==
    IF s = <<>> THEN {<<>>}
    ELSE UNION {{<<s[k]>> \o rest : rest \in Shuffles(Without(s, k))} : k \in DOMAIN s}

\* C12: _merge_adjacent returns the same sequence for every reordering of its
\* input list and every max_gap, also when several intervals share a start.
C12_MergeOrderIndependent ==
    algOp = "merge" =>
        \A shuffled \in Shuffles(algBase) : _merge_adjacent(shuffled, algGap) = algOut

\* C12 witness: two intervals with the same start and different ends, the
\* longer one first, and a third interval that starts before them
C12_Witness ==
    /\ algOp = "merge"
    /\ Len(algBase) = 3
    /\ algBase[1][1] = algBase[2][1]
    /\ algBase[1][2] > algBase[2][2]
    /\ algBase[3][1] < algBase[1][1]
    /\ Len(algOut) = 2

\* C13: _subtract_intervals(X, []) is X itself, in its input order and with
\* its overlaps, and _subtract_intervals([], Y) is the empty list.
C13_SubtractEmptyIdentities ==
    algOp = "subtract" =>
        /\ algCuts = <<>> => algOut = algBase
        /\ algBase = <<>> => algOut = <<>>
        /\ _subtract_intervals(algBase, <<>>) = algBase
        /\ _subtract_intervals(<<>>, algCuts) = <<>>

\* C13 witness: an unsorted, overlapping base with a zero-length interval and
\* no cuts comes back as it went in
C13_Witness ==
    /\ algOp = "subtract"
    /\ algCuts = <<>>
    /\ Len(algBase) = 3
    /\ ~IsSortedByStart(algBase)
    /\ ~NonOverlapping(SortedByStart(algBase))
    /\ \E k \in DOMAIN algBase : algBase[k][1] = algBase[k][2]
    /\ algOut = algBase

\* C14 (as claimed): subtracting the same cuts a second time changes nothing:
\* _subtract_intervals(_subtract_intervals(B, C), C) is the same sequence as
\* _subtract_intervals(B, C), for unsorted and overlapping B and C.
C14_SubtractIdempotent ==
    algOp = "subtract" => _subtract_intervals(algOut, algCuts) = algOut

\* the intervals of a list that have a positive length
NonZero(ivs) == SelectSeq(ivs, LAMBDA iv : iv[1] < iv[2])

\* C15 (as claimed): deleting the zero-length intervals from the input of
\* _merge_adjacent, or from the base or the cuts of _subtract_intervals,
\* leaves the result unchanged, and no zero-length interval is in the output
\* of _subtract_intervals.
C15_ZeroLengthAreNoOps ==
    /\ algOp = "merge" => _merge_adjacent(NonZero(algBase), algGap) = algOut
    /\ algOp = "subtract" =>
          /\ _subtract_intervals(NonZero(algBase), algCuts) = algOut
          /\ _subtract_intervals(algBase, NonZero(algCuts)) = algOut
          /\ NonZero(algOut) = algOut

\* C16 (as claimed): the effective threshold is never below the configured
\* static threshold and never above -20 dB, for every frame-energy sequence
\* and every configured static threshold (thresholds in fifths of a dB).
C16_ThresholdClamped ==
    anaOp = "_adaptive_threshold" =>
        /\ anaOut >= 5 * analyzer.silence_threshold
        /\ anaOut <= -100

\* C17: for a fixed frame-energy sequence the effective threshold does not
\* fall when the configured static threshold is raised.
C17_ThresholdMonotonic ==
    anaOp = "_adaptive_threshold" =>
        \A s2 \in StaticThresholds :
            LET t2 == _adaptive_threshold(DbValues(buffer.frames), s2)
            IN /\ analyzer.silence_threshold <= s2 => anaOut <= t2
               /\ s2 <= analyzer.silence_threshold => t2 <= anaOut

\* C17 witness: the dynamic candidate (noise floor + 6 dB) lies above a low
\* static threshold, and a higher static threshold lifts the result
C17_Witness ==
    /\ anaOp = "_adaptive_threshold"
    /\ Len(buffer.frames) = 2
    /\ analyzer.silence_threshold = -60
    /\ anaOut > 5 * analyzer.silence_threshold
    /\ anaOut < _adaptive_threshold(DbValues(buffer.frames), -25)

\* ceil(a / b) for a >= 0 and b > 0
CeilDiv(a, b) == (a + b - 1) \div b

\* C18 (as claimed): for every non-negative frame duration and every buffer,
\* the energy sequence has ceil(buffer_duration / frame_duration) entries, the
\* speech-band-ratio sequence has as many for the analyzer's frame duration,
\* and an empty buffer gives two empty sequences and no error.
C18_FrameSequenceLengths ==
    anaOp = "frames" =>
        /\ anaOut.energy.error = "none"
        /\ anaOut.ratio.error = "none"
        /\ anaOut.frame_duration > 0 =>
              Len(anaOut.energy.values) = CeilDiv(1000 * buffer.length, anaOut.frame_duration)
        /\ Len(anaOut.ratio.values) = CeilDiv(buffer.length, frame_duration)
        /\ anaOut.frame_duration = 1000 * frame_duration =>
              Len(anaOut.energy.values) = Len(anaOut.ratio.values)
        /\ buffer = EmptyBuffer =>
              (anaOut.energy.values = <<>> /\ anaOut.ratio.values = <<>>)

\* two half-open intervals share a time point
Overlaps(a, b) == Max(a[1], b[1]) < Min(a[2], b[2])

\* the word events of the scenario, in units of 0.05 s
ScenarioWords ==
    << [word |-> "um", start |-> 20, end |-> 24],
       [word |-> "hello", start |-> 26, end |-> 32],
       [word |-> "world", start |-> 33, end |-> 40] >>

\* C19: no authoritative range overlaps the interval of a recognized filler
\* word (lowercased text in the lexicon, end > start), and every
\* authoritative range lies inside an oracle speech range; the words
\* um(1.0,1.2) hello(1.3,1.6) world(1.65,2.0) with gaps 0.5 and 0.25 give
\* speech [(1.0,2.0)], fillers [(1.0,1.2)] and authoritative [(1.2,2.0)].
C19_AuthoritativeAvoidsFillers ==
    /\ pc = "check_speech" =>
          \A k \in DOMAIN speech_segments :
              /\ \A n \in DOMAIN word_events :
                    (Lower(word_events[n].word) \in filler_set
                     /\ word_events[n].end > word_events[n].start)
                        => ~Overlaps(speech_segments[k],
                                     <<word_events[n].start, word_events[n].end>>)
              /\ \E j \in DOMAIN oracle_speech :
                    Within(speech_segments[k], oracle_speech[j])
    /\ LET speech == _merge_adjacent(_collect_words_from_result(ScenarioWords), 10)
           fillers == _merge_adjacent(_collect_fillers_from_result(ScenarioWords), 5)
       IN /\ speech = << <<20, 40>> >>
          /\ fillers = << <<20, 24>> >>
          /\ _subtract_intervals(speech, fillers) = << <<24, 40>> >>

\* C19 witness: a capitalised filler inside a longer word's range splits the
\* one oracle speech range into two authoritative ranges
C19_Witness ==
    /\ pc = "check_speech"
    /\ Len(word_events) = 2
    /\ \E n \in DOMAIN word_events : word_events[n].word = "Um"
    /\ Len(oracle_speech) = 1
    /\ Len(filler_segments) = 1
    /\ Len(speech_segments) = 2

\* frame k of the buffer counts as silent under the effective threshold
SilentInBuffer(k) ==
    IsSilentFrame(buffer.frames[k],
                  _adaptive_threshold(DbValues(buffer.frames), analyzer.silence_threshold))

\* the buffer of the scenario: energies -50, -50, -10, -10, -50, -50 dB
ScenarioBuffer ==
    [length |-> 600,
     frames |-> << [db |-> -50, ratio |-> 10], [db |-> -50, ratio |-> 10],
                   [db |-> -10, ratio |-> 60], [db |-> -10, ratio |-> 60],
                   [db |-> -50, ratio |-> 10], [db |-> -50, ratio |-> 10] >>]

\* C20 (as claimed): every range detect_silence_segments returns runs from
\* the start of the first frame to the end of the last frame of a maximal run
\* of silent frames; the scenario buffer with threshold -40 dB and a minimum
\* of 0.15 s gives silence [(0.0,0.2),(0.4,0.6)] and fallback speech
\* [(0.2,0.4)] (times in milliseconds).
C20_SilenceRangesCoverSilentFramesOnly ==
    /\ anaOp = "detect_silence_segments" =>
          \A r \in Range(anaOut) :
              \E a, b \in DOMAIN buffer.frames :
                  /\ a <= b
                  /\ r = <<(a - 1) * frame_duration, b * frame_duration>>
                  /\ \A k \in a..b : SilentInBuffer(k)
                  /\ a > 1 => ~SilentInBuffer(a - 1)
                  /\ b < Len(buffer.frames) => ~SilentInBuffer(b + 1)
    /\ anaOp \in {"detect_silence_segments", "_fallback_speech_segments"} =>
          /\ detect_silence_segments(ScenarioBuffer, -40, 150)
                = << <<0, 200>>, <<400, 600>> >>
          /\ _fallback_speech_segments(ScenarioBuffer, -40, 150) = << <<200, 400>> >>

\* ------------------------------------------------------------------------
\* C25
\* ------------------------------------------------------------------------
\* p < q for two percentages held as fractions
Less(p, q) == p[1] * q[2] < q[1] * p[2]

\* C25: progress is monotonic.  While a process_video call is running, no
\* report other than the one cancel() makes and the error report of a failed
\* return passes a percentage lower than the report before it; this covers
\* the reports of an export that is retried after a failed first attempt, a
\* run that can still end in success.
C25_ProgressNeverDecreases ==
    [][(pc \notin {"idle", "done", "analyzed"}
        /\ cancel_requested' = cancel_requested
        /\ result' # "False")
       => ~Less(progress', progress)]_vars

\* ------------------------------------------------------------------------
\* C30
\* ------------------------------------------------------------------------
\* C30: on every exit path of process_video after the source clip has been
\* opened (every return but the two made before or while opening it), the
\* clip has been closed exactly once when the call returns.
C30_ClipClosedExactlyOnce ==
    (pc = "done"
     /\ message \notin {"Error: Input file not found", "Error: could not open video"})
    => closes = 1

\* ------------------------------------------------------------------------
\* C26
\* ------------------------------------------------------------------------
\* a short word said between two fillers, in quarter seconds:
\* um(0.0,0.25) hello(0.25,0.5) um(0.5,0.75)
BetweenFillers ==
    << [word |-> "um", start |-> 0, end |-> 1],
       [word |-> "hello", start |-> 1, end |-> 2],
       [word |-> "um", start |-> 2, end |-> 3] >>

\* the interval of every non-filler word of the events is covered by the ranges
NonFillersKept(events, ranges) ==
    \A n \in DOMAIN events :
        (Lower(events[n].word) \notin filler_set /\ events[n].end > events[n].start)
            => \A t \in events[n].start..(events[n].end - 1) : Covered(t, ranges)

\* C26: only filler words are removed from recognized speech: the interval of
\* every recognized non-filler word (end > start) is fully covered by the
\* authoritative ranges Subtract(Merge(all words, 0.5), Merge(fillers, 0.25)),
\* for the word events of the run and for a word said between two fillers.
C26_OnlyFillersRemoved ==
    pc = "check_speech" =>
        /\ NonFillersKept(word_events, speech_segments)
        /\ NonFillersKept(BetweenFillers,
                          _subtract_intervals(detect_speech_segments(BetweenFillers),
                                              detect_fillers(BetweenFillers)))

\* ------------------------------------------------------------------------
\* C22
\* ------------------------------------------------------------------------
\* frames a..b of the buffer are a maximal run of silent frames
MaximalSilentRun(a, b) ==
    /\ a <= b
    /\ \A k \in a..b : SilentInBuffer(k)
    /\ a > 1 => ~SilentInBuffer(a - 1)
    /\ b < Len(buffer.frames) => ~SilentInBuffer(b + 1)

\* C22: a maximal run of silent frames whose own duration (number of silent
\* frames x frame_duration) is below min_silence_duration is never emitted by
\* detect_silence_segments as a silence range, wherever in the buffer it is;
\* a run whose duration is at least min_silence_duration is always emitted.
C22_ShortRunsNeverEmitted ==
    anaOp = "detect_silence_segments" =>
        \A a, b \in DOMAIN buffer.frames :
            MaximalSilentRun(a, b) =>
                LET emitted == \E r \in Range(anaOut) : r[1] = (a - 1) * frame_duration
                IN emitted <=> (b - a + 1) * frame_duration >= analyzer.min_silence_duration

\* ------------------------------------------------------------------------
\* C27
\* ------------------------------------------------------------------------
\* C27: every range detect_silence_segments and find_speech_segments return
\* lies within [0, buffer_duration], buffer_duration being the audio length,
\* also when the length is no multiple of the frame duration and the last
\* frame is cut short.
C27_RangesWithinBuffer ==
    anaOp \in {"detect_silence_segments", "find_speech_segments"} =>
        \A r \in Range(anaOut) : 0 <= r[1] /\ r[1] <= r[2] /\ r[2] <= buffer.length

\* ------------------------------------------------------------------------
\* C23
\* ------------------------------------------------------------------------
\* what the primary scan of find_speech_segments emits for the buffer
PrimarySpeech ==
    SpeechScan(buffer.frames, 0,
               _adaptive_threshold(DbValues(buffer.frames), analyzer.silence_threshold),
               -1, <<>>)

\* what detect_silence_segments finds in the buffer
DetectedSilence ==
    detect_silence_segments(buffer, analyzer.silence_threshold,
                            analyzer.min_silence_duration)

\* the ranges cover exactly the milliseconds of the buffer outside the silence
ComplementOfSilence(ranges) ==
    \A t \in 0..(buffer.length - 1) : Covered(t, ranges) <=> ~Covered(t, DetectedSilence)

\* C23 (as claimed): when the primary scan emits nothing, find_speech_segments
\* returns exactly the complement of the detected silence within the buffer:
\* the whole buffer when no silence was found, and otherwise at least one
\* range, every returned range having positive length.
C23_FallbackAlwaysGivesARange ==
    (anaOp = "find_speech_segments" /\ PrimarySpeech = <<>>) =>
        /\ ComplementOfSilence(anaOut)
        /\ IF DetectedSilence = <<>>
           THEN anaOut = << <<0, buffer.length>> >>
           ELSE /\ anaOut # <<>>
                /\ \A r \in Range(anaOut) : r[1] < r[2]

\* C23 (amended): when the primary scan emits nothing, find_speech_segments
\* returns exactly the complement of the detected silence within the buffer:
\* the single range (0, buffer_duration) when no silence was found, and
\* otherwise the ranges of positive length, inside the buffer, that the
\* silence leaves over, which are none exactly when the silence covers the
\* whole buffer.
C23_FallbackIsComplementOfSilence ==
    (anaOp = "find_speech_segments" /\ PrimarySpeech = <<>>) =>
        /\ ComplementOfSilence(anaOut)
        /\ IF DetectedSilence = <<>>
           THEN anaOut = << <<0, buffer.length>> >>
           ELSE /\ \A r \in Range(anaOut) : 0 <= r[1] /\ r[1] < r[2] /\ r[2] <= buffer.length
                /\ anaOut = <<>> <=>
                      \A t \in 0..(buffer.length - 1) : Covered(t, DetectedSilence)

\* C23 witness: no frame passes the speech test, silence was found, and the
\* fallback returned what the silence left over
C23_Witness ==
    /\ anaOp = "find_speech_segments"
    /\ PrimarySpeech = <<>>
    /\ DetectedSilence # <<>>
    /\ anaOut # <<>>
    /\ anaOut # << <<0, buffer.length>> >>

\* ------------------------------------------------------------------------
\* C24
\* ------------------------------------------------------------------------
\* the effective threshold both scans use for the buffer, times 5
EffectiveThreshold5 ==
    _adaptive_threshold(DbValues(buffer.frames), analyzer.silence_threshold)

\* frame k passes the speech test of find_speech_segments
SpeechInBuffer(k) == IsSpeechFrame(buffer.frames[k], EffectiveThreshold5)

\* frame k has a speech-band ratio >= 0.35 and an energy in [T - 2.0, T)
InBand(k) ==
    /\ buffer.frames[k].ratio >= 35
    /\ EffectiveThreshold5 - 10 <= 5 * buffer.frames[k].db
    /\ 5 * buffer.frames[k].db < EffectiveThreshold5

\* C24 (as claimed): for a frame in the band neither the silent decision of
\* detect_silence_segments nor the speech decision of find_speech_segments
\* fires, and no frame is classified both silent and speech.
C24_BandFiresNeither ==
    anaOp \in {"detect_silence_segments", "find_speech_segments"} =>
        \A k \in DOMAIN buffer.frames :
            /\ InBand(k) => (~SilentInBuffer(k) /\ ~SpeechInBuffer(k))
            /\ ~(SilentInBuffer(k) /\ SpeechInBuffer(k))

\* C24 (amended): for a frame in the band both decisions fire: the frame
\* lies in a speech range of find_speech_segments and, when one frame is long
\* enough for a silence, in a silence range of detect_silence_segments; and a
\* frame is classified both silent and speech only in this band.
C24_BandFiresBoth ==
    /\ anaOp = "find_speech_segments" =>
          \A k \in DOMAIN buffer.frames :
              InBand(k) => Covered((k - 1) * frame_duration, anaOut)
    /\ (anaOp = "detect_silence_segments"
        /\ analyzer.min_silence_duration <= frame_duration) =>
          \A k \in DOMAIN buffer.frames :
              InBand(k) => Covered((k - 1) * frame_duration, anaOut)
    /\ anaOp \in {"detect_silence_segments", "find_speech_segments"} =>
          \A k \in DOMAIN buffer.frames :
              (SilentInBuffer(k) /\ SpeechInBuffer(k)) => InBand(k)

\* C24 witness: detect_silence_segments ran on a buffer with a frame in the
\* band and returned a silence range holding that frame
C24_Witness ==
    /\ anaOp = "detect_silence_segments"
    /\ analyzer.min_silence_duration <= frame_duration
    /\ \E k \in DOMAIN buffer.frames :
          InBand(k) /\ SpeechInBuffer(k) /\ Covered((k - 1) * frame_duration, anaOut)

\* ------------------------------------------------------------------------
\* C21
\* ------------------------------------------------------------------------
\* the defaults the claim and test_config_settings expect, in tenths
ExpectedDefaults ==
    [key \in SettingKeys |->
        CASE key = "silence_threshold" -> -400
          [] key = "min_silence_duration" -> 5
          [] key = "fade_duration" -> 1]

\* C21: on a Settings object built with no saved configuration file, a key
\* not set since construction or the last reset reads as its default
\* (silence_threshold -40.0, min_silence_duration 0.5, fade_duration 0.1), and
\* after set(k, v), get(k) returns v until the key is set again or the
\* settings are reset.
C21_DefaultsAndGetAfterSet ==
    DOMAIN current # {} =>
        \A key \in SettingKeys :
            get(key, "None") = IF last_set[key] = <<>> THEN ExpectedDefaults[key]
                               ELSE last_set[key][1]

\* ------------------------------------------------------------------------
\* C28
\* ------------------------------------------------------------------------
\* the threads that were started and whose process_video call has not returned
ActiveWorkers == {w \in Workers : workers[w] \in {"started", "running"}}

\* C28: at most one processing worker is active at any time: through every
\* sequence of Process and confirmed Cancel, no thread is started while the
\* process_video call of an earlier thread has not returned.
C28_AtMostOneActiveWorker == Cardinality(ActiveWorkers) <= 1

\* ------------------------------------------------------------------------
\* C29
\* ------------------------------------------------------------------------
\* C29: after the user confirmed Cancel, no callback the cancelled worker
\* posted later (progress update, processing_complete, processing_failed)
\* changes the progress display, shows a dialog, or changes is_processing or
\* the state of the controls.
C29_CancelledUiStateIsFinal ==
    [][(after_queue # <<>> /\ after_queue' = Tail(after_queue)
        /\ Head(after_queue).by_cancelled)
       => UNCHANGED <<progress_text, dialog, is_processing, controls>>]_vars

====
